---- MODULE Spec2Model ----
(***************************************************************************)
(* Model of src/main.py: the CameraRaw Cache2 cleaner.  One run is the     *)
(* sequence gate -> confirmation -> scan -> file loop -> directory loop -> *)
(* summary; the filesystem is a function from absolute paths (sequences of *)
(* segments) to entries, symlinks included.                                *)
(***************************************************************************)
EXTENDS Integers, Sequences, FiniteSets, TLC

VARIABLES fs, fs0, args, target_path, pc, exit_status, console, log,
          all_files, all_dirs, total_files, idx, calls, run, prev

vars == <<fs, fs0, args, target_path, pc, exit_status, console, log,
          all_files, all_dirs, total_files, idx, calls, run, prev>>

(* ------------------------------ bounds --------------------------------- *)

\* largest number of entries below the target in an initial tree
MaxEntries == 3

\* number of consecutive invocations of the program
MaxRuns == 2

\* names of directory entries (different lengths: path length is not depth)
Names == {"a", "bbbb"}

\* the orders in which os.scandir may list a directory
NameOrders == {<<"a", "bbbb">>, <<"bbbb", "a">>}

(* ------------------------------ paths ---------------------------------- *)

\* os.sep
Sep == "/"

\* the two substrings the identity check looks for
ProviderMarker == "CameraRaw"
CacheMarker == "Cache2"

\* resolved target paths a run may be given
GoodTarget == <<"x", "CameraRaw", "Cache2">>
GluedTarget == <<"x", "oldCameraRaw.Cache2.bak">>
NoCacheTarget == <<"x", "CameraRaw", "Cache">>
NoProviderTarget == <<"x", "Camera", "Cache2">>
TargetCandidates == {GoodTarget, GluedTarget, NoCacheTarget, NoProviderTarget}

\* entries that exist outside every target
OutFile == <<"x", "outF">>
OutDir == <<"x", "outD">>
OutsidePaths == {OutFile, OutDir}

RECURSIVE Str(_)
\* str(path): the segments joined by the separator
Str(p) == IF p = <<>> THEN "" ELSE Str(SubSeq(p, 1, Len(p) - 1)) \o Sep \o p[Len(p)]

\* Python's `m in s` on strings
Contains(s, m) ==
    \E i \in 1..(Len(s) - Len(m) + 1) : SubSeq(s, i, i + Len(m) - 1) = m

\* variant: a containment check that lets everything through
IsRelativeToAlways(p, other) == TRUE

\* PurePath.is_relative_to: `other` is a prefix of the parts of p
is_relative_to(p, other) ==
    /\ Len(other) <= Len(p)
    /\ SubSeq(p, 1, Len(other)) = other

Parent(p) == SubSeq(p, 1, Len(p) - 1)

(* --------------------------- the filesystem ---------------------------- *)

File == [kind |-> "file", dest |-> <<>>]
Dir == [kind |-> "dir", dest |-> <<>>]
Link(d) == [kind |-> "link", dest |-> d]

Exists(f, p) == p \in DOMAIN f

RECURSIVE Follow(_, _, _)
Follow(f, p, n) ==
    IF n = 0 \/ ~Exists(f, p) \/ f[p].kind # "link" THEN p
    ELSE Follow(f, f[p].dest, n - 1)

\* Path.resolve(): follow symlinks; a dangling link resolves to its destination
Resolve(f, p) == Follow(f, p, Cardinality(DOMAIN f))

\* Path.is_file() / Path.is_dir(): both follow symlinks
is_file(f, p) == LET r == Resolve(f, p) IN Exists(f, r) /\ f[r].kind = "file"
is_dir(f, p) == LET r == Resolve(f, p) IN Exists(f, r) /\ f[r].kind = "dir"

HasChildren(f, p) == \E q \in DOMAIN f : Len(q) = Len(p) + 1 /\ Parent(q) = p

Remove(f, p) == [q \in (DOMAIN f) \ {p} |-> f[q]]

\* can Path.unlink() succeed on p: p names a file or a symlink (never followed)
CanUnlink(f, p) == Exists(f, p) /\ f[p].kind # "dir"

\* can Path.rmdir() succeed on p: p names a real, empty directory
CanRmdir(f, p) == Exists(f, p) /\ f[p].kind = "dir" /\ ~HasChildren(f, p)

(* ------------------------------ the scan ------------------------------- *)

RECURSIVE Children(_, _, _)
\* os.scandir(d): the entries of directory d, listed in the order `ord`
Children(f, d, ord) ==
    IF ord = <<>> THEN <<>>
    ELSE (IF Exists(f, Append(d, Head(ord))) THEN <<Append(d, Head(ord))>> ELSE <<>>)
         \o Children(f, d, Tail(ord))

RECURSIVE Walk(_, _, _)
RECURSIVE WalkEach(_, _, _)
\* the walk below the real (never the symlinked) subdirectories in `ds`
WalkEach(f, ds, ord) ==
    IF ds = <<>> THEN <<>>
    ELSE (IF f[Head(ds)].kind = "dir" THEN Walk(f, Head(ds), ord) ELSE <<>>)
         \o WalkEach(f, Tail(ds), ord)

\* the entries strictly below d: d's own entries, then each subdirectory's walk
Walk(f, d, ord) == Children(f, d, ord) \o WalkEach(f, Children(f, d, ord), ord)

\* variant: a walk that also yields its starting point
RGlobWithSelf(f, t, ord) == <<t>> \o Walk(f, t, ord)

\* target_path.rglob('*'): the target itself is not among the results
rglob(f, t, ord) == Walk(f, t, ord)

RECURSIVE Filter(_, _, _)
\* [p for p in seq if is_file(p)] (wantFile) or [... if is_dir(p)]
Filter(f, seq, wantFile) ==
    IF seq = <<>> THEN <<>>
    ELSE (IF (wantFile /\ is_file(f, Head(seq))) \/ (~wantFile /\ is_dir(f, Head(seq)))
          THEN <<Head(seq)>> ELSE <<>>)
         \o Filter(f, Tail(seq), wantFile)

\* the sort key of line 84
SortKey(p) == Len(Str(p))

\* variant: the sort without reverse=True
GoesBeforeAscending(p, q) == SortKey(p) < SortKey(q)

\* reverse=True: p goes before q when its key is strictly larger
GoesBefore(p, q) == SortKey(p) > SortKey(q)

RECURSIVE Insert(_, _)
\* stable insertion of p into the sorted sequence s (p came after all of s)
Insert(s, p) ==
    IF s = <<>> THEN <<p>>
    ELSE IF GoesBefore(p, Head(s)) THEN <<p>> \o s
    ELSE <<Head(s)>> \o Insert(Tail(s), p)

RECURSIVE SortDirs(_)
\* list.sort(key=..., reverse=True): a stable sort
SortDirs(s) ==
    IF s = <<>> THEN <<>>
    ELSE Insert(SortDirs(SubSeq(s, 1, Len(s) - 1)), s[Len(s)])

(* --------------------------- initial states ---------------------------- *)

RECURSIVE Shapes(_)
\* the sets of at most k paths (relative to the target) closed under Parent
Shapes(k) ==
    IF k = 0 THEN {{}}
    ELSE LET S == Shapes(k - 1)
         IN  S \cup UNION {{t \cup {Append(par, n)} : par \in t \cup {<<>>}, n \in Names} : t \in S}

\* what an entry below target t can be; a link points outside, at t or at t/a
EntryKinds(t) ==
    {File, Dir, Link(OutFile), Link(OutDir), Link(t), Link(Append(t, "a"))}

\* the trees of the shape: an entry with entries below it is a real directory,
\* and no link points at itself
Trees(t, shape) ==
    {l \in [shape -> EntryKinds(t)] :
        \A r \in shape :
            /\ (\E q \in shape : q # <<>> /\ Parent(q) = r) => l[r] = Dir
            /\ l[r] # Link(t \o r)}

\* the filesystem: the outside entries, the target (unless missing), its tree
World(t, tkind, tree) ==
    [p \in OutsidePaths \cup (IF tkind = "missing" THEN {} ELSE {t})
                        \cup {t \o r : r \in DOMAIN tree} |->
        IF p = OutFile THEN File
        ELSE IF p = OutDir THEN Dir
        ELSE IF p = t THEN (IF tkind = "dir" THEN Dir ELSE File)
        ELSE tree[SubSeq(p, Len(t) + 1, Len(p))]]

InitWorlds(t) ==
    {World(t, "missing", <<>>), World(t, "file", <<>>)}
    \cup UNION {{World(t, "dir", tree) : tree \in Trees(t, shape)} :
                    shape \in Shapes(MaxEntries)}

Init ==
    /\ \E t \in TargetCandidates, y \in BOOLEAN :
        /\ args = [path |-> t, yes |-> y]
        /\ fs \in InitWorlds(t)
    /\ fs0 = fs
    /\ target_path = <<>>
    /\ pc = "start"
    /\ exit_status = -1
    /\ console = <<>>
    /\ log = <<>>
    /\ all_files = <<>>
    /\ all_dirs = <<>>
    /\ total_files = 0
    /\ idx = 0
    /\ calls = <<>>
    /\ run = 1
    /\ prev = [summary |-> FALSE, unlinked |-> 0, total |-> 0]

(* ------------------------------ the run -------------------------------- *)

Say(msg, n) == [msg |-> msg, n |-> n]
Rec(level, msg, p) == [level |-> level, msg |-> msg, path |-> p]
Call(op, p, r, ok) == [op |-> op, path |-> p, resolved |-> r, ok |-> ok]

\* variant: the identity check made before the existence check
GateIdentityFirst(f, t) ==
    IF ~Contains(Str(t), ProviderMarker) \/ ~Contains(Str(t), CacheMarker)
    THEN "UnexpectedPath"
    ELSE IF ~Exists(f, t) \/ ~is_dir(f, t) THEN "PathNotFound"
    ELSE "ok"

\* variant: `and` between the two marker tests, so one marker is enough
GateEitherMarker(f, t) ==
    IF ~Exists(f, t) \/ ~is_dir(f, t) THEN "PathNotFound"
    ELSE IF ~Contains(Str(t), ProviderMarker) /\ ~Contains(Str(t), CacheMarker)
    THEN "UnexpectedPath"
    ELSE "ok"

\* lines 68-73: the existence check, then the identity check
GateResult(f, t) ==
    IF ~Exists(f, t) \/ ~is_dir(f, t) THEN "PathNotFound"
    ELSE IF ~Contains(Str(t), ProviderMarker) \/ ~Contains(Str(t), CacheMarker)
    THEN "UnexpectedPath"
    ELSE "ok"

\* the answer echoed after the prompt: 1 for yes, 0 for no
Typed(answer) == IF answer THEN 1 ELSE 0

\* variant: the test of the answer without its `not`
CancelsInverted(answer) == answer

\* line 77: `if not Confirm.ask(prompt)` leaves the run
Cancels(answer) == ~answer

\* variants: the loops entered even for an empty list; skipped for one file
NoFilesNever(n) == FALSE
NoFilesAtMostOne(n) == n <= 1

\* line 87: `if total_files == 0` skips both loops
NoFiles(n) == n = 0

\* `for x in seq`: is there an element left at position i
HasNext(seq, i) == i <= Len(seq)

\* variant: a failure that leaves the loops
AfterFailureAbort(p) == "summary"

\* lines 105 and 116: `except Exception` logs and the loop goes on
AfterFailure(p) == p

\* line 127: the value of the "Files Deleted" row
FilesDeleted == total_files

\* lines 43-73: the log file is opened in mode 'w', the panel and the target
\* are printed, the gate accepts or exits with status 1
Gate ==
    /\ pc = "start"
    /\ LET t == Resolve(fs, args.path)
           res == GateResult(fs, t)
           shown == <<Say("warning panel", 0), Say("target", 0)>>
       IN  /\ target_path' = t
           /\ log' = <<>>
           /\ IF res = "ok"
              THEN /\ console' = shown
                   /\ pc' = IF args.yes THEN "scan" ELSE "confirm"
                   /\ exit_status' = exit_status
              ELSE /\ console' = Append(shown, Say(res, 0))
                   /\ pc' = "exited"
                   /\ exit_status' = 1
    /\ UNCHANGED <<fs, fs0, args, all_files, all_dirs, total_files, idx, calls, run, prev>>

\* lines 75-80: the prompt; "no" logs the cancellation and exits with status 0
Confirm ==
    /\ pc = "confirm"
    /\ \E answer \in BOOLEAN :
        IF Cancels(answer)
        THEN /\ console' = console \o <<Say("prompt", Typed(answer)), Say("cancelled", 0)>>
             /\ log' = Append(log, Rec("INFO", "Operation cancelled by user.", <<>>))
             /\ pc' = "exited"
             /\ exit_status' = 0
        ELSE /\ console' = Append(console, Say("prompt", Typed(answer)))
             /\ pc' = "scan"
             /\ UNCHANGED <<log, exit_status>>
    /\ UNCHANGED <<fs, fs0, args, target_path, all_files, all_dirs, total_files, idx,
                   calls, run, prev>>

\* lines 82-91: the two scans, the sort, the count and the empty case
Scan ==
    /\ pc = "scan"
    /\ \E ord \in NameOrders :
        LET files == Filter(fs, rglob(fs, target_path, ord), TRUE)
            dirs == SortDirs(Filter(fs, rglob(fs, target_path, ord), FALSE))
        IN  /\ all_files' = files
            /\ all_dirs' = dirs
            /\ total_files' = Len(files)
            /\ IF NoFiles(Len(files))
               THEN /\ console' = Append(console, Say("no files", 0))
                    /\ log' = Append(log, Rec("INFO",
                                  "No files to delete in the target directory.", <<>>))
                    /\ pc' = "summary"
               ELSE /\ console' = Append(console, Say("deleting", Len(files)))
                    /\ log' = log
                    /\ pc' = "files"
    /\ idx' = 1
    /\ calls' = calls \o <<Call("rglob", target_path, target_path, TRUE),
                           Call("rglob", target_path, target_path, TRUE)>>
    /\ UNCHANGED <<fs, fs0, args, target_path, exit_status, run, prev>>

\* lines 98-107: one iteration of the file loop
DeleteFile ==
    /\ pc = "files"
    /\ HasNext(all_files, idx)
    /\ LET p == all_files[idx]
           r == Resolve(fs, p)
       IN  IF ~is_relative_to(r, target_path)
           THEN /\ log' = Append(log, Rec("WARNING", "Skipping file outside target", p))
                /\ pc' = pc
                /\ UNCHANGED <<fs, calls>>
           ELSE \E ok \in {b \in BOOLEAN : b => CanUnlink(fs, p)} :
                   /\ calls' = Append(calls, Call("unlink", p, r, ok))
                   /\ IF ok
                      THEN /\ fs' = Remove(fs, p)
                           /\ log' = Append(log, Rec("INFO", "Deleted file", p))
                           /\ pc' = pc
                      ELSE /\ fs' = fs
                           /\ log' = Append(log, Rec("ERROR", "Failed to delete file", p))
                           /\ pc' = AfterFailure(pc)
    /\ idx' = idx + 1
    /\ UNCHANGED <<fs0, args, target_path, exit_status, console, all_files, all_dirs,
                   total_files, run, prev>>

\* line 98 exhausted: the directory loop of line 109 begins
FilesDone ==
    /\ pc = "files"
    /\ ~HasNext(all_files, idx)
    /\ pc' = "dirs"
    /\ idx' = 1
    /\ UNCHANGED <<fs, fs0, args, target_path, exit_status, console, log, all_files,
                   all_dirs, total_files, calls, run, prev>>

\* lines 109-117: one iteration of the directory loop
RemoveDir ==
    /\ pc = "dirs"
    /\ HasNext(all_dirs, idx)
    /\ LET p == all_dirs[idx]
           r == Resolve(fs, p)
       IN  IF ~is_relative_to(r, target_path)
           THEN /\ log' = Append(log, Rec("WARNING", "Skipping directory outside target", p))
                /\ pc' = pc
                /\ UNCHANGED <<fs, calls>>
           ELSE \E ok \in {b \in BOOLEAN : b => CanRmdir(fs, p)} :
                   /\ calls' = Append(calls, Call("rmdir", p, r, ok))
                   /\ IF ok
                      THEN /\ fs' = Remove(fs, p)
                           /\ log' = Append(log, Rec("INFO", "Deleted directory", p))
                           /\ pc' = pc
                      ELSE /\ fs' = fs
                           /\ log' = Append(log, Rec("ERROR", "Failed to delete directory", p))
                           /\ pc' = AfterFailure(pc)
    /\ idx' = idx + 1
    /\ UNCHANGED <<fs0, args, target_path, exit_status, console, all_files, all_dirs,
                   total_files, run, prev>>

\* lines 119-120: after the directory loop
DirsDone ==
    /\ pc = "dirs"
    /\ ~HasNext(all_dirs, idx)
    /\ console' = Append(console, Say("completed", 0))
    /\ log' = Append(log, Rec("INFO", "Deletion process completed.", <<>>))
    /\ pc' = "summary"
    /\ UNCHANGED <<fs, fs0, args, target_path, exit_status, all_files, all_dirs,
                   total_files, idx, calls, run, prev>>

\* lines 122-133: the summary table; main returns, the process exits with 0
Summary ==
    /\ pc = "summary"
    /\ console' = Append(console, Say("Files Deleted", FilesDeleted))
    /\ exit_status' = 0
    /\ pc' = "exited"
    /\ UNCHANGED <<fs, fs0, args, target_path, log, all_files, all_dirs, total_files,
                   idx, calls, run, prev>>

\* the successful unlink calls of the run
Unlinked == {i \in 1..Len(calls) : calls[i].op = "unlink" /\ calls[i].ok}

\* the program is invoked again on the same path: only the filesystem and the
\* log file outlive a process
Restart ==
    /\ pc = "exited"
    /\ run < MaxRuns
    /\ run' = run + 1
    /\ prev' = [summary |-> (Len(console) > 0 /\ console[Len(console)].msg = "Files Deleted"),
                unlinked |-> Cardinality(Unlinked),
                total |-> total_files]
    /\ \E y \in BOOLEAN : args' = [args EXCEPT !.yes = y]
    /\ fs0' = fs
    /\ target_path' = <<>>
    /\ pc' = "start"
    /\ exit_status' = -1
    /\ console' = <<>>
    /\ all_files' = <<>>
    /\ all_dirs' = <<>>
    /\ total_files' = 0
    /\ idx' = 0
    /\ calls' = <<>>
    /\ UNCHANGED <<fs, log>>

RunStep ==
    \/ Gate
    \/ Confirm
    \/ Scan
    \/ DeleteFile
    \/ FilesDone
    \/ RemoveDir
    \/ DirsDone
    \/ Summary

Next == RunStep \/ Restart

Spec == Init /\ [][Next]_vars

TypeOK ==
    /\ pc \in {"start", "confirm", "scan", "files", "dirs", "summary", "exited"}
    /\ exit_status \in {-1, 0, 1}
    /\ run \in 1..MaxRuns

(* ------------------------- vocabulary of the claims -------------------- *)

Shown(m) == \E i \in 1..Len(console) : console[i].msg = m
ShownWith(m, n) == \E i \in 1..Len(console) : console[i] = Say(m, n)
Logged(level) == \E i \in 1..Len(log) : log[i].level = level

\* p lies strictly below t
Under(p, t) == Len(p) > Len(t) /\ \A k \in 1..Len(t) : p[k] = t[k]

Elems(s) == {s[i] : i \in 1..Len(s)}

IsEntryRec(r) == r.path # <<>>
\* the log records about entries, in the order written
EntryLog == SelectSeq(log, IsEntryRec)
EntryPaths == [i \in 1..Len(EntryLog) |-> EntryLog[i].path]

IsDeletion(c) == c.op \in {"unlink", "rmdir"}
Deletions == SelectSeq(calls, IsDeletion)

GateRan == pc # "start"
BothMarkers(t) == Contains(Str(t), ProviderMarker) /\ Contains(Str(t), CacheMarker)
ExistingDir(f, t) == Exists(f, t) /\ f[t].kind = "dir"
SummaryShown == Shown("Files Deleted")
RescanEmpty ==
    \A ord \in NameOrders :
        /\ Filter(fs, rglob(fs, target_path, ord), TRUE) = <<>>
        /\ Filter(fs, rglob(fs, target_path, ord), FALSE) = <<>>

(* -------------------------------- claims ------------------------------- *)

\* C1: nothing outside the target is deleted or modified; every unlink and
\* rmdir is made on an entry below the target whose resolved path is not
\* outside it; a processed entry that resolves outside the target is still
\* there and has a warning record.
C1_Containment ==
    /\ \A p \in OutsidePaths : Exists(fs, p) /\ Exists(fs0, p) /\ fs[p] = fs0[p]
    /\ \A i \in 1..Len(Deletions) :
        /\ Under(Deletions[i].path, target_path)
        /\ Deletions[i].resolved \notin OutsidePaths
    /\ pc \in {"files", "dirs", "summary", "exited"} =>
        \A i \in 1..Len(EntryLog) :
            Resolve(fs, EntryLog[i].path) \in OutsidePaths =>
                /\ EntryLog[i].level = "WARNING"
                /\ Exists(fs, EntryLog[i].path)

C1_Witness ==
    /\ pc = "exited"
    /\ \E i \in 1..Len(EntryLog) :
        EntryLog[i].level = "WARNING" /\ Resolve(fs, EntryLog[i].path) \in OutsidePaths
    /\ \E i \in 1..Len(Deletions) : Deletions[i].ok

\* C2: a target that is missing, not a directory or lacks a marker ends the
\* run with status 1, no prompt, no scan, no unlink or rmdir and an unchanged
\* filesystem; any scan or deletion happens only for an existing directory
\* with both markers and after --yes or a "yes" answer.
C2_GateBeforeDeletion ==
    /\ (GateRan /\ ~(ExistingDir(fs0, target_path) /\ BothMarkers(target_path))) =>
        /\ pc = "exited"
        /\ exit_status = 1
        /\ ~Shown("prompt")
        /\ calls = <<>>
        /\ fs = fs0
    /\ (calls # <<>> \/ fs # fs0) =>
        /\ ExistingDir(fs0, target_path)
        /\ BothMarkers(target_path)
        /\ args.yes \/ ShownWith("prompt", 1)

C2_Witness ==
    /\ pc = "exited"
    /\ exit_status = 1
    /\ ExistingDir(fs0, target_path)
    /\ ~BothMarkers(target_path)
    /\ \E p \in DOMAIN fs : Under(p, target_path)

\* C3 as stated: after a run that reaches the summary without a failed
\* deletion, a new scan of the target finds no file and no directory.
C3_Original ==
    (pc = "exited" /\ SummaryShown /\ ~Logged("ERROR")) => RescanEmpty

\* C3 as amended: after a run whose scan found at least one file and in which
\* no deletion failed and no entry was skipped, a new scan of the target finds
\* no file and no directory, and the target itself is still there.
C3_Amended ==
    (pc = "exited" /\ SummaryShown /\ total_files > 0
        /\ ~Logged("ERROR") /\ ~Logged("WARNING")) =>
            /\ RescanEmpty
            /\ ExistingDir(fs, target_path)

C3_Witness ==
    /\ pc = "exited"
    /\ SummaryShown
    /\ total_files > 0
    /\ ~Logged("ERROR")
    /\ ~Logged("WARNING")
    /\ Len(all_dirs) > 1
    /\ RescanEmpty

\* C4: a directory's removal attempt comes after the record of every listed
\* file and directory below it.
C4_DescendantsFirst ==
    pc \in {"files", "dirs", "summary", "exited"} =>
        \A j \in 1..Len(EntryLog) :
            EntryLog[j].path \in Elems(all_dirs) =>
                \A q \in Elems(all_files) \cup Elems(all_dirs) :
                    Under(q, EntryLog[j].path) =>
                        \E i \in 1..(j - 1) : EntryLog[i].path = q

C4_Witness ==
    /\ pc = "exited"
    /\ \E j \in 1..Len(EntryLog) :
        /\ EntryLog[j].path \in Elems(all_dirs)
        /\ \E q \in Elems(all_dirs) : Under(q, EntryLog[j].path)
        /\ \E q \in Elems(all_files) : Under(q, EntryLog[j].path)

\* C5: the "Files Deleted" value of the summary is the number of files that
\* were unlinked successfully in the run.
C5_ReportsSuccesses ==
    (pc = "exited" /\ SummaryShown) =>
        ShownWith("Files Deleted", Cardinality(Unlinked))

\* C6: after "no" at the prompt the process has exited with status 0, made no
\* scan, unlink or rmdir, left the filesystem as it was, and the log holds
\* the cancellation record and nothing else.
C6_Cancelled ==
    ShownWith("prompt", 0) =>
        /\ pc = "exited"
        /\ exit_status = 0
        /\ calls = <<>>
        /\ fs = fs0
        /\ log = <<Rec("INFO", "Operation cancelled by user.", <<>>)>>

C6_Witness ==
    /\ ShownWith("prompt", 0)
    /\ run > 1
    /\ prev.summary
    /\ \E p \in DOMAIN fs : Under(p, target_path)

\* C7 as stated: a path lacking a marker is rejected as UnexpectedPath whether
\* or not it exists; an existing directory with both markers is accepted.
C7_Original ==
    GateRan =>
        /\ ~BothMarkers(target_path) => Shown("UnexpectedPath")
        /\ (ExistingDir(fs0, target_path) /\ BothMarkers(target_path)) =>
            ~Shown("UnexpectedPath") /\ ~Shown("PathNotFound")

\* C7 as amended: the existence check comes first.  A path that is missing or
\* not a directory is rejected as PathNotFound whatever its markers; an
\* existing directory lacking a marker is rejected as UnexpectedPath; an
\* existing directory with both markers is accepted.
C7_Amended ==
    GateRan =>
        /\ ~ExistingDir(fs0, target_path) =>
            Shown("PathNotFound") /\ ~Shown("UnexpectedPath") /\ exit_status = 1
        /\ (ExistingDir(fs0, target_path) /\ ~BothMarkers(target_path)) =>
            Shown("UnexpectedPath") /\ ~Shown("PathNotFound") /\ exit_status = 1
        /\ (ExistingDir(fs0, target_path) /\ BothMarkers(target_path)) =>
            ~Shown("UnexpectedPath") /\ ~Shown("PathNotFound") /\ exit_status # 1

C7_Witness ==
    /\ GateRan
    /\ ~Exists(fs0, target_path)
    /\ ~BothMarkers(target_path)
    /\ Shown("PathNotFound")

\* the entries of both snapshots, in processing order
Entries == all_files \o all_dirs

\* the deletion calls made on path p
CallsOn(p) == {i \in 1..Len(Deletions) : Deletions[i].path = p}

C8_OncePerEntry ==
    /\ pc \in {"files", "dirs"} =>
        /\ Len(EntryLog) <= Len(Entries)
        /\ EntryPaths = SubSeq(Entries, 1, Len(EntryLog))
    /\ (pc \in {"summary", "exited"} /\ total_files > 0) =>
        EntryPaths = Entries
    /\ \A i \in 1..Len(Entries) : Cardinality(CallsOn(Entries[i])) <= 1
    /\ (pc = "exited" /\ total_files > 0) => (exit_status = 0 /\ SummaryShown)

\* the steps a run in its loops still has to take before it has exited
Remaining ==
    IF pc = "files" THEN (Len(all_files) + 1 - idx) + Len(all_dirs) + 4
    ELSE IF pc = "dirs" THEN (Len(all_dirs) + 1 - idx) + 2
    ELSE IF pc = "summary" THEN 1
    ELSE 0

InLoops == pc \in {"files", "dirs", "summary"}

\* C8: once the loops start, every file and then every directory of the
\* snapshots gets exactly one record and at most one unlink or rmdir, whatever
\* happened to earlier entries; the run can always take its next step, every
\* step brings it nearer to its end, and it ends with the summary and exit
\* status 0.
C8_EveryEntryOnce ==
    /\ [](C8_OncePerEntry /\ (InLoops => ENABLED RunStep))
    /\ [][InLoops => (Remaining' < Remaining /\ Remaining' >= 0 /\ run' = run)]_vars

C8_Witness ==
    /\ pc = "exited"
    /\ exit_status = 0
    /\ EntryPaths = Entries
    /\ \E i, j, k \in 1..Len(EntryLog) :
        /\ i < j
        /\ j < k
        /\ EntryLog[i].level = "WARNING"
        /\ EntryLog[j].level = "ERROR"
        /\ CallsOn(EntryLog[k].path) # {}

\* the entries below the target at the start of the run are regular files
\* and empty directories only, with at least one file
FilesAndEmptyDirs ==
    /\ \A p \in DOMAIN fs0 :
        Under(p, target_path) =>
            /\ fs0[p].kind \in {"file", "dir"}
            /\ fs0[p].kind = "dir" => ~HasChildren(fs0, p)
    /\ \E p \in DOMAIN fs0 : Under(p, target_path) /\ fs0[p].kind = "file"

\* C9: the target is in neither list and no run removes it; after a confirmed
\* run without failures on a target of regular files and empty directories
\* the target exists and has no entries.
C9_TargetKept ==
    /\ target_path \notin Elems(all_files) \cup Elems(all_dirs)
    /\ Exists(fs0, args.path) => (Exists(fs, args.path) /\ fs[args.path] = fs0[args.path])
    /\ (pc = "exited" /\ SummaryShown /\ FilesAndEmptyDirs /\ ~Logged("ERROR")) =>
        /\ ExistingDir(fs, target_path)
        /\ ~HasChildren(fs, target_path)

C9_Witness ==
    /\ pc = "exited"
    /\ SummaryShown
    /\ FilesAndEmptyDirs
    /\ ~Logged("ERROR")
    /\ Len(all_dirs) > 0
    /\ Len(all_files) > 0
    /\ ExistingDir(fs, target_path)
    /\ ~HasChildren(fs, target_path)

\* a scan that finds no file: no unlink, no rmdir, nothing changed, 0 reported
C10_EmptyScan ==
    (pc \in {"summary", "exited"} /\ ExistingDir(fs0, target_path) /\ total_files = 0
        /\ Len(calls) > 0) =>
            /\ Deletions = <<>>
            /\ fs = fs0
            /\ pc = "exited" => (ShownWith("Files Deleted", 0) /\ exit_status = 0)

\* C10 as stated: an empty scan deletes nothing and reports 0, and a run that
\* follows a completed run on the same target reports 0 files deleted.
C10_Original ==
    /\ C10_EmptyScan
    /\ (run > 1 /\ prev.summary /\ pc = "exited" /\ SummaryShown) =>
        (ShownWith("Files Deleted", 0) /\ exit_status = 0)

\* C10 as amended: an empty scan deletes nothing and reports 0, and a run that
\* follows a completed run which unlinked every file of its File List reports
\* 0 files deleted and exits with status 0.
C10_Amended ==
    /\ C10_EmptyScan
    /\ (run > 1 /\ prev.summary /\ prev.unlinked = prev.total
            /\ pc = "exited" /\ SummaryShown) =>
        (ShownWith("Files Deleted", 0) /\ exit_status = 0 /\ fs = fs0)

C10_Witness ==
    /\ run > 1
    /\ prev.summary
    /\ prev.total > 0
    /\ prev.unlinked = prev.total
    /\ pc = "exited"
    /\ ShownWith("Files Deleted", 0)
    /\ Len(all_dirs) > 0

====
